---- MODULE Spec2Model ----
(***************************************************************************)
(* A model of mw_analyze.py: the in-memory ledger held by BasicInfo, its   *)
(* balance functions and its consistency checks.                           *)
(*                                                                         *)
(* Money is counted in tenths of a cent, so that round(x, 2) is a real     *)
(* operation (Round2) and not the identity.  Dates are small integers;     *)
(* datetime.date.min and datetime.date.max are DateMin and DateMax.        *)
(* The amounts of a ledger are whole cents.                                *)
(* Primary keys (Z_PK) are positive integers; Python's None is None.       *)
(* The fields payee, memo, name and is_bucket_optional, and the            *)
(* transfer_sibling of a MoneyFlow, are only printed and are left out of   *)
(* the records.  added is a history variable: the (account, range) pairs   *)
(* passed to add_account_bucketed_daterange so far.                        *)
(***************************************************************************)
EXTENDS Integers, Sequences, FiniteSets, TLC

VARIABLES accounts, buckets, cash_flow_start, starting_bucket_balances,
          transactions, money_flows, splits, semi_bucketed_accounts,
          pc, error_sum, last, added

vars == <<accounts, buckets, cash_flow_start, starting_bucket_balances,
          transactions, money_flows, splits, semi_bucketed_accounts,
          pc, error_sum, last, added>>

ledger == <<accounts, buckets, cash_flow_start, starting_bucket_balances,
            transactions, money_flows, splits>>

----------------------------------------------------------------------------
(* Bounds of the model. *)

MaxDate == 3
NAcct == 2
NBucket == 2
MaxTxn == 2
MaxFlow == 1
MaxRanges == 2
MaxCheckRanges == 1

----------------------------------------------------------------------------
(* Values. *)

None == -1
DateMin == 0
DateMax == MaxDate + 1

Dates == 1..MaxDate
AccountKeys == 1..NAcct
BucketKeys == 1..NBucket

\* Python truthiness of an optional key: None and 0 are false.
Truthy(x) == x # None /\ x # 0

\* round(x, 2) of Python 2: to the nearest cent, halves away from zero.
Round2(x) ==
    IF x >= 0 THEN ((x + 5) \div 10) * 10
    ELSE -((((-x) + 5) \div 10) * 10)

Abs(x) == IF x >= 0 THEN x ELSE -x

\* sum(...) over the amount of every record of a collection.
RECURSIVE SumAmount(_)
SumAmount(S) ==
    IF S = {} THEN 0
    ELSE LET x == CHOOSE y \in S : TRUE
         IN  x.amount + SumAmount(S \ {x})

\* sum(map(f, keys)) for f given as a function on keys.
RECURSIVE SumF(_, _)
SumF(f, S) ==
    IF S = {} THEN 0
    ELSE LET x == CHOOSE y \in S : TRUE
         IN  f[x] + SumF(f, S \ {x})

\* list.sort(key = Transaction.get_date) of a collection taken from the
\* transaction dictionary: by date, and within a date in dictionary order
\* (ascending key for small integer keys; the sort is stable).
RECURSIVE SortByDate(_)
SortByDate(S) ==
    IF S = {} THEN <<>>
    ELSE LET x == CHOOSE y \in S :
                     \A z \in S : y.date < z.date
                                  \/ (y.date = z.date /\ y.key <= z.key)
         IN  <<x>> \o SortByDate(S \ {x})

SeqKeys(s) == [i \in 1..Len(s) |-> s[i].key]

\* The order of transactions.values() for a collection taken from the
\* transaction dictionary: ascending key for small integer keys.
RECURSIVE DictOrder(_)
DictOrder(S) ==
    IF S = {} THEN <<>>
    ELSE LET x == CHOOSE y \in S : \A z \in S : y.key <= z.key
         IN  <<x>> \o DictOrder(S \ {x})

----------------------------------------------------------------------------
(* Utility functions over collections of transactions and flows. *)

TxnValues == {transactions[k] : k \in DOMAIN transactions}
FlowValues == {money_flows[k] : k \in DOMAIN money_flows}

\* Faulty variant: proper_txns keeping the split children.
proper_txns_all(txns) == txns

proper_txns(txns) == {txn \in txns : txn.split_parent = None}

txns_in_account(txns, account) == {txn \in txns : txn.account = account}

txns_in_bucket(txns, bucket) == {txn \in txns : txn.bucket = bucket}

txns_between_dates(txns, datestart, dateend) ==
    {txn \in txns : txn.date >= datestart /\ txn.date <= dateend}

txns_at_or_before_date(txns, date) == txns_between_dates(txns, DateMin, date)

txn_amount_sum(txns) == Round2(SumAmount(txns))

flows_in_bucket(flows, bucket) == {flow \in flows : flow.bucket = bucket}

flows_between_dates(flows, datestart, dateend) ==
    {flow \in flows : flow.date >= datestart /\ flow.date <= dateend}

flow_amount_sum(flows) == Round2(SumAmount(flows))

includes_date(date_range, date) ==
    date_range.datestart <= date /\ date <= date_range.dateend

----------------------------------------------------------------------------
(* BasicInfo: classification of accounts. *)

\* The set of split parents BasicInfo.__init__ derives from the transactions.
SplitsOf(txns) ==
    {txn.split_parent : txn \in {t \in txns : Truthy(t.split_parent)}}

is_txn_split(txn) == txn.key \in splits

is_account_bucketed(account, date) ==
    IF account \in DOMAIN semi_bucketed_accounts
    THEN \E i \in 1..Len(semi_bucketed_accounts[account]) :
            includes_date(semi_bucketed_accounts[account][i], date)
    ELSE accounts[account].bucketed

permanently_bucketed_accounts ==
    {account \in DOMAIN accounts :
        accounts[account].bucketed /\ account \notin DOMAIN semi_bucketed_accounts}

permanently_unbucketed_accounts ==
    {account \in DOMAIN accounts :
        ~accounts[account].bucketed /\ account \notin DOMAIN semi_bucketed_accounts}

sometimes_bucketed_accounts == DOMAIN semi_bucketed_accounts

bucketed_accounts(date) ==
    {account \in DOMAIN accounts : is_account_bucketed(account, date)}

unbucketed_accounts(date) ==
    {account \in DOMAIN accounts : ~is_account_bucketed(account, date)}

----------------------------------------------------------------------------
(* BasicInfo: balances. *)

\* date = None is the omitted argument ("if date:" is false only for None).
account_balance(account, date) ==
    LET txns == txns_in_account(proper_txns(TxnValues), account)
    IN  IF date # None
        THEN txn_amount_sum(txns_at_or_before_date(txns, date))
        ELSE txn_amount_sum(txns)

total_account_balance(accts, date) ==
    Round2(SumF([account \in accts |-> account_balance(account, date)], accts))

\* Faulty variant: the bucketed accounts taken as of the latest date, not of date.
total_bucketed_account_balance_latest(date) ==
    total_account_balance(bucketed_accounts(DateMax), date)

total_bucketed_account_balance(date) ==
    total_account_balance(bucketed_accounts(date), date)

\* Faulty variant: the window of bucket_balance opening on the cash flow start date.
bucket_balance_from_start(bucket, date) ==
    LET starting_balance ==
            IF bucket \in DOMAIN starting_bucket_balances
            THEN starting_bucket_balances[bucket]
            ELSE 0
        my_txns == txns_between_dates(txns_in_bucket(TxnValues, bucket),
                                      cash_flow_start, date)
        my_flows == flows_between_dates(flows_in_bucket(FlowValues, bucket),
                                        cash_flow_start, date)
    IN  Round2(starting_balance + txn_amount_sum(my_txns) + flow_amount_sum(my_flows))

bucket_balance(bucket, date) ==
    LET starting_balance ==
            IF bucket \in DOMAIN starting_bucket_balances
            THEN starting_bucket_balances[bucket]
            ELSE 0
        my_txns == txns_between_dates(txns_in_bucket(TxnValues, bucket),
                                      cash_flow_start + 1, date)
        txn_balance == txn_amount_sum(my_txns)
        my_flows == flows_between_dates(flows_in_bucket(FlowValues, bucket),
                                        cash_flow_start + 1, date)
        flow_balance == flow_amount_sum(my_flows)
    IN  Round2(starting_balance + txn_balance + flow_balance)

\* Faulty variant: total_bucket_balance leaving out the hidden buckets.
total_bucket_balance_visible(date) ==
    LET shown == {bucket \in DOMAIN buckets : ~buckets[bucket].hidden}
    IN  Round2(SumF([bucket \in shown |-> bucket_balance(bucket, date)], shown))

total_bucket_balance(date) ==
    Round2(SumF([bucket \in DOMAIN buckets |-> bucket_balance(bucket, date)],
                DOMAIN buckets))

----------------------------------------------------------------------------
(* BasicInfo: the checks.  Each returns a record: ret is the value the     *)
(* method returns, the other fields are what it prints.                    *)

SplitTolerance == 10

\* Faulty variant: the accounts included by their flag, whatever the date ranges.
check_cash_flow_start_by_flag(accounts_to_include) ==
    LET included ==
            IF accounts_to_include = <<>>
            THEN {account \in DOMAIN accounts : accounts[account].bucketed}
            ELSE accounts_to_include[1]
        bucket_balance_total ==
            Round2(SumF(starting_bucket_balances, DOMAIN starting_bucket_balances))
        account_balances ==
            [account \in included |-> account_balance(account, cash_flow_start)]
        account_balance_total == Round2(SumF(account_balances, included))
    IN  [ret |-> account_balance_total - bucket_balance_total,
         report |-> IF account_balance_total = bucket_balance_total THEN "good"
                    ELSE IF account_balance_total > bucket_balance_total
                         THEN "accounts exceed"
                         ELSE "buckets exceed",
         by |-> Abs(account_balance_total - bucket_balance_total),
         bucket_balance_total |-> bucket_balance_total,
         account_balance_total |-> account_balance_total,
         account_balances |-> account_balances]

\* Faulty variant: the account balances taken before the cash flow start date.
check_cash_flow_start_before(accounts_to_include) ==
    LET included ==
            IF accounts_to_include = <<>>
            THEN bucketed_accounts(cash_flow_start)
            ELSE accounts_to_include[1]
        bucket_balance_total ==
            Round2(SumF(starting_bucket_balances, DOMAIN starting_bucket_balances))
        account_balances ==
            [account \in included |-> account_balance(account, cash_flow_start - 1)]
        account_balance_total == Round2(SumF(account_balances, included))
    IN  [ret |-> account_balance_total - bucket_balance_total,
         report |-> IF account_balance_total = bucket_balance_total THEN "good"
                    ELSE IF account_balance_total > bucket_balance_total
                         THEN "accounts exceed"
                         ELSE "buckets exceed",
         by |-> Abs(account_balance_total - bucket_balance_total),
         bucket_balance_total |-> bucket_balance_total,
         account_balance_total |-> account_balance_total,
         account_balances |-> account_balances]

\* accounts_to_include is <<>> when the argument is omitted (None) and
\* <<S>> when the collection S of account keys is supplied.
check_cash_flow_start(accounts_to_include) ==
    LET included ==
            IF accounts_to_include = <<>>
            THEN bucketed_accounts(cash_flow_start)
            ELSE accounts_to_include[1]
        bucket_balance_total ==
            Round2(SumF(starting_bucket_balances, DOMAIN starting_bucket_balances))
        account_balances ==
            [account \in included |-> account_balance(account, cash_flow_start)]
        account_balance_total == Round2(SumF(account_balances, included))
    IN  [ret |-> account_balance_total - bucket_balance_total,
         report |-> IF account_balance_total = bucket_balance_total THEN "good"
                    ELSE IF account_balance_total > bucket_balance_total
                         THEN "accounts exceed"
                         ELSE "buckets exceed",
         by |-> Abs(account_balance_total - bucket_balance_total),
         bucket_balance_total |-> bucket_balance_total,
         account_balance_total |-> account_balance_total,
         account_balances |-> account_balances]

\* Faulty variant: the bucket vs. account check naming the wrong side.
check_bucket_balances_swapped(date) ==
    LET account_sum == total_bucketed_account_balance(date)
        bucket_sum == total_bucket_balance(date)
    IN  IF account_sum = bucket_sum
        THEN [ret |-> TRUE, report |-> "good", by |-> 0]
        ELSE IF account_sum < bucket_sum
             THEN [ret |-> FALSE, report |-> "accounts exceed",
                   by |-> bucket_sum - account_sum]
             ELSE [ret |-> FALSE, report |-> "buckets exceed",
                   by |-> account_sum - bucket_sum]

check_bucket_balances(date) ==
    LET account_sum == total_bucketed_account_balance(date)
        bucket_sum == total_bucket_balance(date)
    IN  IF account_sum = bucket_sum
        THEN [ret |-> TRUE, report |-> "good", by |-> 0]
        ELSE IF account_sum > bucket_sum
             THEN [ret |-> FALSE, report |-> "accounts exceed",
                   by |-> account_sum - bucket_sum]
             ELSE [ret |-> FALSE, report |-> "buckets exceed",
                   by |-> bucket_sum - account_sum]

\* Faulty variant: the account of the sibling looked up on the sibling's date.
is_txn_xfer_sibling_bucketed_on_its_date(txn) ==
    IF txn.transfer_sibling \notin DOMAIN transactions
    THEN FALSE
    ELSE is_account_bucketed(transactions[txn.transfer_sibling].account,
                             transactions[txn.transfer_sibling].date)

is_txn_xfer_sibling_bucketed(txn) ==
    IF txn.transfer_sibling \notin DOMAIN transactions
    THEN FALSE
    ELSE is_account_bucketed(transactions[txn.transfer_sibling].account, txn.date)

get_xfer_sibling(txn) ==
    IF txn.transfer_sibling \notin DOMAIN transactions
    THEN None
    ELSE transactions[txn.transfer_sibling]

\* Faulty variant: the checks starting on the cash flow start date itself.
TxnsFromStart(account) ==
    txns_between_dates(txns_in_account(TxnValues, account),
                       cash_flow_start, DateMax)

\* The transactions of an account dated after the cash flow start date.
TxnsAfterStart(account) ==
    txns_between_dates(txns_in_account(TxnValues, account),
                       cash_flow_start + 1, DateMax)

\* What a check reports for the accounts it walks: per account the sorted
\* list of offending transactions (only accounts with a non-empty list are
\* printed) and the sum of the per-account totals.
Offending(accts, found) ==
    [account \in {a \in accts : found[a] # {}} |-> SeqKeys(SortByDate(found[account]))]

ErrorSum(accts, found) ==
    SumF([account \in accts |->
             IF found[account] # {} THEN txn_amount_sum(found[account]) ELSE 0],
         accts)

\* Faulty variant: split children left out and split parents examined.
unbucketed_txns_found_proper(account) ==
    LET t0 == TxnsAfterStart(account)
        t1 == IF account \in sometimes_bucketed_accounts
              THEN {txn \in t0 : is_account_bucketed(account, txn.date)}
              ELSE t0
        t2 == proper_txns(t1)
        t3 == {txn \in t2 : ~Truthy(txn.transfer_sibling)}
        t4 == {txn \in t3 : txn.bucket = None}
    IN  {txn \in t4 : txn.amount # 0}

unbucketed_txns_found(account) ==
    LET t0 == TxnsAfterStart(account)
        t1 == IF account \in sometimes_bucketed_accounts
              THEN {txn \in t0 : is_account_bucketed(account, txn.date)}
              ELSE t0
        t2 == {txn \in t1 : ~is_txn_split(txn)}
        t3 == {txn \in t2 : ~Truthy(txn.transfer_sibling)}
        t4 == {txn \in t3 : txn.bucket = None}
    IN  {txn \in t4 : txn.amount # 0}

check_for_unbucketed_txns_in_bucketed_accounts ==
    LET accts == permanently_bucketed_accounts \cup sometimes_bucketed_accounts
        found == [account \in accts |-> unbucketed_txns_found(account)]
    IN  [ret |-> ErrorSum(accts, found), offending |-> Offending(accts, found)]

\* Faulty variant: a semi-bucketed account examined on its bucketed dates.
bucketed_txns_found_on_bucketed_dates(account) ==
    LET t0 == TxnsAfterStart(account)
        t1 == IF account \in sometimes_bucketed_accounts
              THEN {txn \in t0 : is_account_bucketed(account, txn.date)}
              ELSE t0
        t2 == {txn \in t1 : ~is_txn_split(txn)}
        t3 == {txn \in t2 : ~Truthy(txn.transfer_sibling)}
        t4 == {txn \in t3 : txn.bucket # None}
    IN  {txn \in t4 : txn.amount # 0}

bucketed_txns_found(account) ==
    LET t0 == TxnsAfterStart(account)
        t1 == IF account \in sometimes_bucketed_accounts
              THEN {txn \in t0 : ~is_account_bucketed(account, txn.date)}
              ELSE t0
        t2 == {txn \in t1 : ~is_txn_split(txn)}
        t3 == {txn \in t2 : ~Truthy(txn.transfer_sibling)}
        t4 == {txn \in t3 : txn.bucket # None}
    IN  {txn \in t4 : txn.amount # 0}

check_for_bucketed_txns_in_unbucketed_accounts ==
    LET accts == permanently_unbucketed_accounts \cup sometimes_bucketed_accounts
        found == [account \in accts |-> bucketed_txns_found(account)]
    IN  [ret |-> -ErrorSum(accts, found), offending |-> Offending(accts, found)]

\* The children of a split parent, in the order of the transaction dictionary.
split_children(txn_key) == {txn \in TxnValues : txn.split_parent = txn_key}

split_error(txn_key) ==
    transactions[txn_key].amount - txn_amount_sum(split_children(txn_key))

\* Pairs of amounts one cent apart whose difference, taken in binary floating
\* point, falls below the double 0.01: 0.03 - 0.02 is 0.009999999999999998.
\* (Of the amounts the ledgers below use, 0.01 - 0.00, 0.02 - 0.01,
\* 0.04 - 0.03 and 100.00 - 99.99 do not fall below it.)
FloatShortOfCent == {<<30, 20>>, <<20, 30>>, <<-30, -20>>, <<-20, -30>>}

\* abs(error) >= 0.01 for error = parent_amount - children_sum as the
\* floating point test decides it: an exact residual of one cent is at
\* the mercy of the representation error of the two amounts.
error_at_least_tolerance(parent_amount, children_sum) ==
    IF Abs(parent_amount - children_sum) = SplitTolerance
    THEN <<parent_amount, children_sum>> \notin FloatShortOfCent
    ELSE Abs(parent_amount - children_sum) > SplitTolerance

check_splits ==
    LET reported == {k \in splits :
                        error_at_least_tolerance(
                            transactions[k].amount,
                            txn_amount_sum(split_children(k)))}
        counted == {k \in reported :
                      /\ is_account_bucketed(transactions[k].account,
                                             transactions[k].date)
                      /\ transactions[k].date > cash_flow_start}
    IN  [ret |-> SumF([k \in counted |-> split_error(k)], counted),
         reported |-> [k \in reported |->
                          [error |-> split_error(k),
                           children |-> SeqKeys(DictOrder(split_children(k)))]],
         error_sum |-> SumF([k \in reported |-> split_error(k)], reported)]

bucketed_xfers(account) ==
    LET t0 == TxnsAfterStart(account)
        t1 == IF account \in sometimes_bucketed_accounts
              THEN {txn \in t0 : is_account_bucketed(account, txn.date)}
              ELSE t0
    IN  {txn \in t1 : Truthy(txn.transfer_sibling)}

\* Faulty variant: a transfer leg with a bucket listed whatever its account.
unbucketed_xfers_found_anywhere(account) ==
    {txn \in TxnsAfterStart(account) :
        Truthy(txn.transfer_sibling) /\ Truthy(txn.bucket)}

xfers_to_bucketed_found(account) ==
    {txn \in {x \in bucketed_xfers(account) : is_txn_xfer_sibling_bucketed(x)} :
        Truthy(txn.bucket)}

\* Faulty variant: legs with an unresolvable sibling set aside.
xfers_to_unbucketed_found_resolved(account) ==
    {txn \in {x \in bucketed_xfers(account) :
                  /\ x.transfer_sibling \in DOMAIN transactions
                  /\ ~is_txn_xfer_sibling_bucketed(x)} :
        ~Truthy(txn.bucket)}

xfers_to_unbucketed_found(account) ==
    {txn \in {x \in bucketed_xfers(account) : ~is_txn_xfer_sibling_bucketed(x)} :
        ~Truthy(txn.bucket)}

check_bucketed_account_transfers ==
    LET accts == permanently_bucketed_accounts \cup sometimes_bucketed_accounts
        to_b == [account \in accts |-> xfers_to_bucketed_found(account)]
        to_u == [account \in accts |-> xfers_to_unbucketed_found(account)]
    IN  [ret |-> ErrorSum(accts, to_b) + ErrorSum(accts, to_u),
         to_bucketed |-> Offending(accts, to_b),
         to_unbucketed |-> Offending(accts, to_u)]

\* Faulty variant: only the legs whose sibling is in a bucketed account.
unbucketed_xfers_found_from_bucketed(account) ==
    LET t0 == TxnsAfterStart(account)
        t1 == IF account \in sometimes_bucketed_accounts
              THEN {txn \in t0 : ~is_account_bucketed(account, txn.date)}
              ELSE t0
        xfers == {txn \in t1 : Truthy(txn.transfer_sibling)}
    IN  {txn \in xfers : Truthy(txn.bucket) /\ is_txn_xfer_sibling_bucketed(txn)}

unbucketed_xfers_found(account) ==
    LET t0 == TxnsAfterStart(account)
        t1 == IF account \in sometimes_bucketed_accounts
              THEN {txn \in t0 : ~is_account_bucketed(account, txn.date)}
              ELSE t0
        xfers == {txn \in t1 : Truthy(txn.transfer_sibling)}
    IN  {txn \in xfers : Truthy(txn.bucket)}

check_unbucketed_account_transfers ==
    LET accts == permanently_unbucketed_accounts \cup sometimes_bucketed_accounts
        found == [account \in accts |-> unbucketed_xfers_found(account)]
    IN  [ret |-> -ErrorSum(accts, found), offending |-> Offending(accts, found)]

----------------------------------------------------------------------------
(* The ledgers the loader hands to BasicInfo.  DataFile reads every row of *)
(* the store as it is, so a ledger is any combination of rows; each        *)
(* specification below draws its ledgers from a bounded family of them.    *)

\* The functions on 1..n whose value at k is one of the rows R[k].
RECURSIVE Rows(_, _)
Rows(n, R) ==
    IF n = 0 THEN {<<>>}
    ELSE {Append(f, r) : f \in Rows(n - 1, R), r \in R[n]}

\* Rows of ZACTIVITY: the Transaction built for primary key k.
TxnRows(k, dates, accts, bkts, siblings, parents, amounts) ==
    [key : {k}, date : dates, account : accts, bucket : bkts,
     transfer_sibling : siblings, split_parent : parents, amount : amounts]

\* Rows of ZBUCKETTRANSFER: the MoneyFlow built for primary key k.
FlowRows(k, amounts) ==
    [key : {k}, date : Dates, bucket : BucketKeys, amount : amounts]

\* Rows of ZACCOUNT: account 1 is included in the cash flow, the others
\* are not (AccountsSplit), or every combination of flags (AccountsAny).
AccountsSplit == {[a \in AccountKeys |-> [bucketed |-> (a = 1)]]}
AccountsAll == {[a \in AccountKeys |-> [bucketed |-> TRUE]]}
AccountsAny == [AccountKeys -> [bucketed : BOOLEAN]]

\* Rows of ZBUCKETSTARTINGBALANCE for the bucket keys ks; the loader does
\* not check that a key names a bucket of ZBUCKET.
StartingBalances(ks, amounts) ==
    UNION {[d -> amounts] : d \in SUBSET ks}

\* A transfer sibling that names no transaction of the ledger.
MissingKey == MaxTxn + 1

\* A non-zero amount that tells the transactions apart: -1, 2, -4, ... cents.
AmountByKey(k) == (IF k % 2 = 1 THEN -10 ELSE 10) * 2 ^ (k - 1)

NoCall == [op |-> "none"]

LedgerInit(A, S, B, T, F) ==
    /\ accounts \in A
    /\ buckets = [b \in BucketKeys |-> [hidden |-> (b = NBucket)]]
    /\ cash_flow_start \in S
    /\ starting_bucket_balances \in B
    /\ transactions \in T
    /\ money_flows \in F
    /\ splits = SplitsOf(TxnValues)
    /\ semi_bucketed_accounts = <<>>
    /\ pc = "setup"
    /\ error_sum = 0
    /\ last = NoCall
    /\ added = {}

----------------------------------------------------------------------------
(* Operations. *)

DateRanges ==
    {r \in [datestart : Dates, dateend : Dates] : r.datestart <= r.dateend}

RangeCount ==
    SumF([a \in DOMAIN semi_bucketed_accounts |-> Len(semi_bucketed_accounts[a])],
         DOMAIN semi_bucketed_accounts)

\* Faulty variant: add_account_bucketed_daterange replacing the ranges of the account.
ranges_after_add_replacing(account, date_range) ==
    [a \in DOMAIN semi_bucketed_accounts \cup {account} |->
        IF a = account THEN <<date_range>> ELSE semi_bucketed_accounts[a]]

\* semi_bucketed_accounts after add_account_bucketed_daterange.
ranges_after_add(account, date_range) ==
    IF account \in DOMAIN semi_bucketed_accounts
    THEN [semi_bucketed_accounts EXCEPT ![account] = Append(@, date_range)]
    ELSE [a \in DOMAIN semi_bucketed_accounts \cup {account} |->
             IF a = account THEN <<date_range>>
             ELSE semi_bucketed_accounts[a]]

\* BasicInfo.add_account_bucketed_daterange; limit bounds the calls made.
add_account_bucketed_daterange(account, date_range, limit) ==
    /\ pc = "setup"
    /\ RangeCount < limit
    /\ semi_bucketed_accounts' = ranges_after_add(account, date_range)
    /\ added' = added \cup {<<account, date_range>>}
    /\ last' = [op |-> "add_account_bucketed_daterange"]
    /\ UNCHANGED <<ledger, pc, error_sum>>

AddRange == \E a \in AccountKeys, r \in DateRanges :
                add_account_bucketed_daterange(a, r, MaxRanges)

AddCheckRange == \E a \in AccountKeys, r \in DateRanges :
                     add_account_bucketed_daterange(a, r, MaxCheckRanges)

\* Faulty variant: a call that uses up the starting balances.
Call_consuming(result) ==
    /\ last' = result
    /\ starting_bucket_balances' = <<>>
    /\ UNCHANGED <<accounts, buckets, cash_flow_start, transactions,
                   money_flows, splits, semi_bucketed_accounts, pc,
                   error_sum, added>>

\* A call of a method that only reads the ledger: its arguments and what it
\* returned are recorded in last.
Call(result) ==
    /\ last' = result
    /\ UNCHANGED <<ledger, semi_bucketed_accounts, pc, error_sum, added>>

QueryDates == Dates \cup {DateMax}

AccountBalance ==
    \E a \in AccountKeys, d \in QueryDates \cup {None} :
        Call([op |-> "account_balance", account |-> a, date |-> d,
              ret |-> account_balance(a, d)])

BucketBalance ==
    \E b \in BucketKeys, d \in QueryDates :
        Call([op |-> "bucket_balance", bucket |-> b, date |-> d,
              ret |-> bucket_balance(b, d)])

IsAccountBucketed ==
    \E a \in AccountKeys, d \in QueryDates :
        Call([op |-> "is_account_bucketed", account |-> a, date |-> d,
              ret |-> is_account_bucketed(a, d)])

TotalBucketedAccountBalance ==
    \E d \in QueryDates :
        Call([op |-> "total_bucketed_account_balance", date |-> d,
              ret |-> total_bucketed_account_balance(d)])

TotalBucketBalance ==
    \E d \in QueryDates :
        Call([op |-> "total_bucket_balance", date |-> d,
              ret |-> total_bucket_balance(d)])

CheckCashFlowStart ==
    \E arg \in {<<>>} \cup {<<S>> : S \in SUBSET AccountKeys} :
        Call([op |-> "check_cash_flow_start", accounts_to_include |-> arg,
              out |-> check_cash_flow_start(arg)])

CheckBucketBalances ==
    \E d \in QueryDates :
        Call([op |-> "check_bucket_balances", date |-> d,
              out |-> check_bucket_balances(d)])

CheckUnbucketedTxns ==
    Call([op |-> "check_for_unbucketed_txns_in_bucketed_accounts",
          out |-> check_for_unbucketed_txns_in_bucketed_accounts])

CheckBucketedTxns ==
    Call([op |-> "check_for_bucketed_txns_in_unbucketed_accounts",
          out |-> check_for_bucketed_txns_in_unbucketed_accounts])

CheckSplits ==
    Call([op |-> "check_splits", out |-> check_splits])

CheckBucketedAccountTransfers ==
    Call([op |-> "check_bucketed_account_transfers",
          out |-> check_bucketed_account_transfers])

CheckUnbucketedAccountTransfers ==
    Call([op |-> "check_unbucketed_account_transfers",
          out |-> check_unbucketed_account_transfers])

\* The checks of __main__, after cross_setup: the bucket vs. account check,
\* then the six checks whose returned values are added up in error_sum.
Main ==
    /\ pc = "setup"
    /\ LET good == check_bucket_balances(DateMax)
           r1 == check_cash_flow_start(<<>>).ret
           r2 == check_for_bucketed_txns_in_unbucketed_accounts.ret
           r3 == check_for_unbucketed_txns_in_bucketed_accounts.ret
           r4 == check_splits.ret
           r5 == check_bucketed_account_transfers.ret
           r6 == check_unbucketed_account_transfers.ret
       IN  /\ error_sum' = 0 + r1 + r2 + r3 + r4 + r5 + r6
           /\ last' = [op |-> "main", good |-> good.ret,
                       returned |-> <<r1, r2, r3, r4, r5, r6>>]
    /\ pc' = "done"
    /\ UNCHANGED <<ledger, semi_bucketed_accounts, added>>

----------------------------------------------------------------------------
(* Bucket balances: ledgers with starting balances (one of them for a key  *)
(* that is no bucket), money flows and bucketed transactions.              *)

BucketTxns ==
    UNION {Rows(n, [k \in 1..n |->
                       TxnRows(k, Dates, {1}, {None} \cup BucketKeys,
                               {None}, {None}, {-10, 20})])
           : n \in 0..MaxTxn}

BucketFlows ==
    UNION {Rows(n, [k \in 1..n |-> FlowRows(k, {-40, 40})]) : n \in 0..MaxFlow}

InitBuckets ==
    LedgerInit(AccountsSplit, 1..(MaxDate - 1),
               StartingBalances({1, NBucket + 1}, {100}),
               BucketTxns, BucketFlows)

NextBuckets == BucketBalance \/ TotalBucketBalance

SpecBuckets == InitBuckets /\ [][NextBuckets]_vars

\* The records of a collection assigned to bucket b and dated after the cash
\* flow start date and on or before d.
InWindow(S, b, d) ==
    {x \in S : x.bucket = b /\ cash_flow_start < x.date /\ x.date <= d}

StartingBalanceOf(b) ==
    IF b \in DOMAIN starting_bucket_balances THEN starting_bucket_balances[b] ELSE 0

ExpectedBucketBalance(b, d) ==
    StartingBalanceOf(b) + SumAmount(InWindow(TxnValues, b, d))
                         + SumAmount(InWindow(FlowValues, b, d))

C5_TotalBucketBalance ==
    last.op = "total_bucket_balance" =>
        last.ret = SumF([b \in DOMAIN buckets |-> ExpectedBucketBalance(b, last.date)],
                        DOMAIN buckets)

\* A total to which a hidden and a visible bucket both contribute.
C5_Witness ==
    /\ last.op = "total_bucket_balance"
    /\ \E h \in DOMAIN buckets, v \in DOMAIN buckets :
          /\ buckets[h].hidden /\ ~buckets[v].hidden
          /\ ExpectedBucketBalance(h, last.date) # 0
          /\ ExpectedBucketBalance(v, last.date) # 0
          /\ last.ret = ExpectedBucketBalance(h, last.date)
                        + ExpectedBucketBalance(v, last.date)

----------------------------------------------------------------------------
(* Account balances: ledgers with split children and bucketed or           *)
(* unbucketed transactions in every account.                               *)

AccountTxns ==
    UNION {Rows(n, [k \in 1..n |->
                       TxnRows(k, Dates, AccountKeys, {None, 1}, {None},
                               {None} \cup 1..(k - 1), {0, AmountByKey(k)})])
           : n \in 0..MaxTxn}

InitAccounts ==
    LedgerInit(AccountsSplit, 1..(MaxDate - 1), {<<>>}, AccountTxns, {<<>>})

NextAccounts == AccountBalance

SpecAccounts == InitAccounts /\ [][NextAccounts]_vars

\* The transactions owned by account a that are no split children and are
\* dated on or before d.
ProperThrough(a, d) ==
    {t \in TxnValues : t.account = a /\ t.split_parent = None /\ t.date <= d}

\* C2: account_balance(a, d) is the sum of the transactions of a that have
\* no split parent and are dated on or before d; without a date it is the
\* sum of all of them, which is account_balance(a, maximum date).
C2_AccountBalance ==
    last.op = "account_balance" =>
        IF last.date = None
        THEN /\ last.ret = SumAmount({t \in TxnValues : t.account = last.account
                                                       /\ t.split_parent = None})
             /\ last.ret = account_balance(last.account, DateMax)
        ELSE last.ret = SumAmount(ProperThrough(last.account, last.date))

\* A balance as of the date of a split parent of the account, whose child
\* in the same account is left out.
C2_Witness ==
    /\ last.op = "account_balance"
    /\ \E p \in TxnValues, c \in TxnValues :
          /\ c.split_parent = p.key
          /\ p.account = last.account /\ c.account = last.account
          /\ p.date = last.date /\ c.date <= last.date
          /\ p.amount # 0 /\ c.amount # 0
          /\ last.ret = p.amount

----------------------------------------------------------------------------
(* Bucketed accounts: every combination of static flags, and up to         *)
(* MaxRanges date ranges added.                                            *)

BucketedTxns ==
    UNION {Rows(n, [k \in 1..n |->
                       TxnRows(k, Dates, AccountKeys, {None}, {None}, {None},
                               {AmountByKey(k)})])
           : n \in 0..MaxTxn}

InitBucketed ==
    LedgerInit(AccountsAny, {1}, {<<>>}, BucketedTxns, {<<>>})

NextBucketed == AddRange \/ IsAccountBucketed \/ TotalBucketedAccountBalance

SpecBucketed == InitBucketed /\ [][NextBucketed]_vars

RangesAdded(a) == {p[2] : p \in {q \in added : q[1] = a}}

\* C3: once ranges were added for an account it is bucketed on exactly the
\* dates inside one of them, whatever its static flag; an account without
\* ranges is bucketed as its static flag says.
C3_IsAccountBucketed ==
    last.op = "is_account_bucketed" =>
        last.ret = IF RangesAdded(last.account) # {}
                   THEN \E r \in RangesAdded(last.account) :
                           r.datestart <= last.date /\ last.date <= r.dateend
                   ELSE accounts[last.account].bucketed

\* An account with a false static flag and two ranges, asked about a date in
\* the second range only.
C3_Witness ==
    /\ last.op = "is_account_bucketed"
    /\ ~accounts[last.account].bucketed
    /\ last.account \in DOMAIN semi_bucketed_accounts
    /\ Len(semi_bucketed_accounts[last.account]) = 2
    /\ ~includes_date(semi_bucketed_accounts[last.account][1], last.date)
    /\ includes_date(semi_bucketed_accounts[last.account][2], last.date)
    /\ last.ret = TRUE

\* C4: total_bucketed_account_balance(d) is the sum of account_balance(a, d)
\* over the accounts bucketed on d.
C4_TotalBucketedAccountBalance ==
    last.op = "total_bucketed_account_balance" =>
        LET on == {a \in DOMAIN accounts : is_account_bucketed(a, last.date)}
        IN  last.ret = SumF([a \in on |-> SumAmount(ProperThrough(a, last.date))], on)

\* A date inside a range of one account and outside the ranges of another
\* whose static flag is true, both with a balance: the first is counted,
\* the second is not.
C4_Witness ==
    /\ last.op = "total_bucketed_account_balance"
    /\ \E a \in DOMAIN semi_bucketed_accounts, b \in DOMAIN semi_bucketed_accounts :
          /\ is_account_bucketed(a, last.date)
          /\ ~is_account_bucketed(b, last.date)
          /\ accounts[b].bucketed
          /\ account_balance(a, last.date) # 0
          /\ account_balance(b, last.date) # 0
          /\ last.ret = account_balance(a, last.date)

----------------------------------------------------------------------------
(* The cash flow start check and the bucket vs. account check: ledgers     *)
(* with starting balances and transactions in both accounts, and one date  *)
(* range added by cross_setup.                                             *)

StartTxns ==
    UNION {Rows(n, [k \in 1..n |->
                       TxnRows(k, Dates, AccountKeys, {None, 1},
                               {None}, {None}, {-30, 100})])
           : n \in 0..MaxTxn}

InitStart ==
    LedgerInit(AccountsSplit, 1..(MaxDate - 1),
               StartingBalances(1..NBucket, {100}), StartTxns, {<<>>})

NextStart == AddCheckRange \/ CheckCashFlowStart \/ CheckBucketBalances

SpecStart == InitStart /\ [][NextStart]_vars

\* The accounts included in the cash flow on date d, from the static flags
\* and the ranges added so far.
BucketedOn(d) ==
    {a \in DOMAIN accounts :
        IF RangesAdded(a) # {}
        THEN \E r \in RangesAdded(a) : r.datestart <= d /\ d <= r.dateend
        ELSE accounts[a].bucketed}

\* C8: check_cash_flow_start returns the sum over the included accounts of
\* their balance through cash_flow_start (the start date included) minus
\* the sum of all starting bucket balances; the included accounts are those
\* bucketed as of cash_flow_start when no set is supplied and the supplied
\* set otherwise; it reports good, and returns zero, iff the sums are equal.
C8_CheckCashFlowStart ==
    last.op = "check_cash_flow_start" =>
        LET included == IF last.accounts_to_include = <<>>
                        THEN BucketedOn(cash_flow_start)
                        ELSE last.accounts_to_include[1]
            account_sum ==
                SumF([a \in included |->
                         SumAmount(ProperThrough(a, cash_flow_start))], included)
            bucket_sum ==
                SumF(starting_bucket_balances, DOMAIN starting_bucket_balances)
        IN  /\ last.out.ret = account_sum - bucket_sum
            /\ DOMAIN last.out.account_balances = included
            /\ (last.out.report = "good") <=> (account_sum = bucket_sum)
            /\ (last.out.ret = 0) <=> (account_sum = bucket_sum)

\* No set supplied, an account included by a date range only, a transaction
\* dated on the start date counted, and the sums equal and not zero.
C8_Witness ==
    /\ last.op = "check_cash_flow_start"
    /\ last.accounts_to_include = <<>>
    /\ \E a \in DOMAIN last.out.account_balances :
          ~accounts[a].bucketed /\ last.out.account_balances[a] # 0
    /\ \E t \in TxnValues :
          /\ t.date = cash_flow_start
          /\ t.amount # 0
          /\ t.account \in DOMAIN last.out.account_balances
          /\ last.out.account_balances[t.account] = t.amount
    /\ last.out.report = "good"
    /\ last.out.ret = 0
    /\ last.out.bucket_balance_total > 0

\* C9: check_bucket_balances(d) returns true and reports good iff
\* total_bucketed_account_balance(d) = total_bucket_balance(d); otherwise it
\* returns false and names the larger side and the positive amount by which
\* it exceeds the other.  The omitted date is datetime.date.max.
C9_CheckBucketBalances ==
    last.op = "check_bucket_balances" =>
        LET account_sum == total_bucketed_account_balance(last.date)
            bucket_sum == total_bucket_balance(last.date)
        IN  /\ last.out.ret <=> (account_sum = bucket_sum)
            /\ last.out.ret <=> (last.out.report = "good")
            /\ ~last.out.ret =>
                  /\ last.out.by > 0
                  /\ account_sum > bucket_sum =>
                        /\ last.out.report = "accounts exceed"
                        /\ last.out.by = account_sum - bucket_sum
                  /\ bucket_sum > account_sum =>
                        /\ last.out.report = "buckets exceed"
                        /\ last.out.by = bucket_sum - account_sum

\* A failed check at a date before all time, the buckets being the larger
\* side while the accounts are not empty.
C9_Witness ==
    /\ last.op = "check_bucket_balances"
    /\ last.date < DateMax
    /\ ~last.out.ret
    /\ last.out.report = "buckets exceed"
    /\ last.out.by > 0
    /\ total_bucketed_account_balance(last.date) > 0

----------------------------------------------------------------------------
(* The transaction checks: ledgers whose transactions take every           *)
(* combination of bucket, transfer sibling, split parent and zero or       *)
(* non-zero amount, in both accounts, and one date range added by          *)
(* cross_setup.                                                            *)

CheckTxns ==
    UNION {Rows(n, [k \in 1..n |->
                       TxnRows(k, Dates, AccountKeys, {None, 1},
                               {None, MissingKey}, {None} \cup 1..(k - 1),
                               {0, AmountByKey(k)})])
           : n \in 0..MaxTxn}

InitChecks ==
    LedgerInit(AccountsSplit, 1..(MaxDate - 1), {<<>>}, CheckTxns, {<<>>})

NextChecks == AddCheckRange \/ CheckUnbucketedTxns \/ CheckBucketedTxns

SpecChecks == InitChecks /\ [][NextChecks]_vars

\* The keys a check lists under account a.
ListedFor(offending, a) ==
    IF a \in DOMAIN offending
    THEN {offending[a][i] : i \in 1..Len(offending[a])}
    ELSE {}

\* The transactions without a bucket that count against a bucketed account:
\* in an account bucketed on their date (permanently, or by a date range),
\* dated after the cash flow start date, no transfer, no bucket, amount not
\* zero.
UnbucketedCandidates ==
    {t \in TxnValues :
        /\ t.account \in BucketedOn(t.date)
        /\ t.date > cash_flow_start
        /\ t.transfer_sibling = None
        /\ t.bucket = None
        /\ t.amount # 0}

HasSplitChildren(t) == \E c \in TxnValues : c.split_parent = t.key

\* C10 as stated: the offending transactions are the candidates that are
\* proper (not a split child).
C10_Original ==
    last.op = "check_for_unbucketed_txns_in_bucketed_accounts" =>
        LET S == {t \in UnbucketedCandidates : t.split_parent = None}
        IN  /\ last.out.ret = SumAmount(S)
            /\ \A a \in AccountKeys :
                  ListedFor(last.out.offending, a) =
                      {t.key : t \in {s \in S : s.account = a}}

\* C10: check_for_unbucketed_txns_in_bucketed_accounts returns the sum of
\* the amounts of exactly the transactions in an account bucketed on their
\* date, dated after cash_flow_start, that are no transfer, have no bucket
\* and a non-zero amount, and that are not a split parent (no transaction
\* names them as its split_parent); split children are examined like any
\* other transaction.  Exactly these are listed, each under its account.
C10_CheckUnbucketedTxns ==
    last.op = "check_for_unbucketed_txns_in_bucketed_accounts" =>
        LET S == {t \in UnbucketedCandidates : ~HasSplitChildren(t)}
        IN  /\ last.out.ret = SumAmount(S)
            /\ \A a \in AccountKeys :
                  ListedFor(last.out.offending, a) =
                      {t.key : t \in {s \in S : s.account = a}}

\* A split parent without a bucket that is not listed and its child without
\* a bucket that is, in an account bucketed by a date range.
C10_Witness ==
    /\ last.op = "check_for_unbucketed_txns_in_bucketed_accounts"
    /\ last.out.ret # 0
    /\ \E p \in UnbucketedCandidates, c \in UnbucketedCandidates :
          /\ c.split_parent = p.key
          /\ p.account = c.account
          /\ p.account \in DOMAIN semi_bucketed_accounts
          /\ p.key \notin ListedFor(last.out.offending, p.account)
          /\ c.key \in ListedFor(last.out.offending, c.account)

----------------------------------------------------------------------------
(* The run of __main__: ledgers with transfers, splits, bucketed and       *)
(* unbucketed transactions on either side of the cash flow start date, a   *)
(* starting balance, and one date range added by cross_setup.              *)

DriverTxns(most) ==
    UNION {Rows(n, [k \in 1..n |->
                       TxnRows(k, Dates, AccountKeys, {None, 1},
                               {None} \cup (1..MaxTxn \ {k}),
                               {None} \cup 1..(k - 1), {-10, 10})])
           : n \in 0..most}

\* Money flows: none, a lone one, or the two legs of a move of money from
\* the first bucket to the last on one date.
DriverFlows ==
    BucketFlows \cup
    {<<[key |-> 1, date |-> d, bucket |-> 1, amount |-> -40],
       [key |-> 2, date |-> d, bucket |-> NBucket, amount |-> 40]>> : d \in Dates}

\* Either up to MaxTxn transactions, a starting balance and no money flows,
\* or fewer transactions with money flows and starting balances, one of
\* them for a key that is no bucket.
InitDriver ==
    \/ LedgerInit(AccountsSplit \cup AccountsAll, 1..(MaxDate - 1),
                  StartingBalances({1}, {10}), DriverTxns(MaxTxn), {<<>>})
    \/ LedgerInit(AccountsSplit \cup AccountsAll, 1..(MaxDate - 1),
                  StartingBalances({1, NBucket + 1}, {10}),
                  DriverTxns(MaxTxn - 1), DriverFlows)

NextDriver == AddCheckRange \/ Main

SpecDriver == InitDriver /\ [][NextDriver]_vars

\* Every transfer leg names a leg in another account that names it back,
\* on the same date and for the opposite amount.
TransfersPaired ==
    \A t \in TxnValues :
        t.transfer_sibling # None =>
            /\ t.transfer_sibling \in DOMAIN transactions
            /\ LET s == transactions[t.transfer_sibling]
               IN  /\ s.transfer_sibling = t.key
                   /\ s.account # t.account
                   /\ s.date = t.date
                   /\ s.amount = -t.amount

\* Every split child names a proper transaction of its own account and
\* date; the bucket of a split, and its transfers, are carried by its
\* children.
SplitsSound ==
    \A c \in TxnValues :
        c.split_parent # None =>
            /\ c.split_parent \in DOMAIN transactions
            /\ LET p == transactions[c.split_parent]
               IN  /\ p.split_parent = None
                   /\ p.account = c.account
                   /\ p.date = c.date
                   /\ p.bucket = None
                   /\ p.transfer_sibling = None

\* Buckets and starting balances name buckets of the ledger.
RefsSound ==
    /\ DOMAIN starting_bucket_balances \subseteq DOMAIN buckets
    /\ \A t \in TxnValues : t.bucket \in {None} \cup DOMAIN buckets
    /\ \A f \in FlowValues : f.bucket \in DOMAIN buckets

\* An account enters or leaves the cash flow only with a balance of zero.
SteadyAccounts ==
    \A a \in DOMAIN accounts, d \in (cash_flow_start + 1)..DateMax :
        ((a \in BucketedOn(d)) # (a \in BucketedOn(d - 1))) =>
            SumAmount(ProperThrough(a, d - 1)) = 0

\* Money flows move money between buckets: on each date they add up to zero.
FlowsBalanced ==
    \A d \in Dates : SumAmount({f \in FlowValues : f.date = d}) = 0

Structural ==
    RefsSound /\ TransfersPaired /\ SplitsSound /\ SteadyAccounts /\ FlowsBalanced

\* After the cash flow start date a transaction carries a bucket exactly
\* when it moves money into or out of the cash flow: in an account bucketed
\* on its date, and not the leg of a transfer to another bucketed account.
BucketsAssigned ==
    \A t \in TxnValues :
        (t.date > cash_flow_start /\ ~HasSplitChildren(t)) =>
            (t.bucket # None) <=>
                /\ t.account \in BucketedOn(t.date)
                /\ \/ t.transfer_sibling = None
                   \/ t.transfer_sibling \notin DOMAIN transactions
                   \/ transactions[t.transfer_sibling].account \notin BucketedOn(t.date)

\* The children of every split add up to their parent.
SplitsComplete ==
    \A p \in TxnValues :
        HasSplitChildren(p) =>
            p.amount = SumAmount({c \in TxnValues : c.split_parent = p.key})

\* The starting bucket balances add up to the balance, through the cash
\* flow start date, of the accounts bucketed on that date.
StartBalanced ==
    SumF(starting_bucket_balances, DOMAIN starting_bucket_balances) =
        SumF([a \in BucketedOn(cash_flow_start) |->
                 SumAmount(ProperThrough(a, cash_flow_start))],
             BucketedOn(cash_flow_start))

\* A well-formed ledger with no entry errors.
WellFormed ==
    Structural /\ BucketsAssigned /\ SplitsComplete /\ StartBalanced

\* C6: the values returned by the six checks add up to
\* total_bucketed_account_balance() - total_bucket_balance() at the
\* open-ended date; stated for the ledgers whose transfers, splits and
\* references are sound, where only buckets, split amounts and starting
\* balances can be in error.
C6_SumOfChecks ==
    (pc = "done" /\ Structural) =>
        error_sum = total_bucketed_account_balance(DateMax)
                        - total_bucket_balance(DateMax)

\* C7 as stated: the totals agree on every date.
C7_Original ==
    (pc = "done" /\ WellFormed) =>
        /\ \A d \in Dates \cup {DateMax} :
              total_bucketed_account_balance(d) = total_bucket_balance(d)
        /\ \A i \in 1..Len(last.returned) : last.returned[i] = 0

\* C7: for a well-formed ledger with no entry errors,
\* total_bucketed_account_balance(d) = total_bucket_balance(d) for every
\* date d on or after cash_flow_start, the bucket vs. account check is good
\* and each of the six checks returns zero.
C7_WellFormedLedger ==
    (pc = "done" /\ WellFormed) =>
        /\ \A d \in cash_flow_start..DateMax :
              total_bucketed_account_balance(d) = total_bucket_balance(d)
        /\ last.good
        /\ Len(last.returned) = 6
        /\ \A i \in 1..Len(last.returned) : last.returned[i] = 0

\* A well-formed ledger with a starting balance, a transaction on or before
\* the start date and a bucketed transaction after it, checked by __main__.
C7_Witness ==
    /\ pc = "done"
    /\ WellFormed
    /\ total_bucket_balance(cash_flow_start) > 0
    /\ \E t \in TxnValues : t.date <= cash_flow_start /\ t.account \in BucketedOn(t.date)
    /\ \E t \in TxnValues : t.date > cash_flow_start /\ t.bucket # None

\* The transactions with a bucket that count against an unbucketed account:
\* in an account not bucketed on their date (permanently unbucketed, or
\* outside every date range of the account), dated after the cash flow
\* start date, no transfer, a bucket assigned, amount not zero.
BucketedCandidates ==
    {t \in TxnValues :
        /\ t.account \notin BucketedOn(t.date)
        /\ t.date > cash_flow_start
        /\ t.transfer_sibling = None
        /\ t.bucket # None
        /\ t.amount # 0}

\* C11 as stated: the offending transactions are the candidates that are
\* proper (not a split child).
C11_Original ==
    last.op = "check_for_bucketed_txns_in_unbucketed_accounts" =>
        LET S == {t \in BucketedCandidates : t.split_parent = None}
        IN  /\ last.out.ret = -SumAmount(S)
            /\ \A a \in AccountKeys :
                  ListedFor(last.out.offending, a) =
                      {t.key : t \in {s \in S : s.account = a}}

\* C11: check_for_bucketed_txns_in_unbucketed_accounts returns the negated
\* sum of the amounts of its offending transactions: those in an account
\* not bucketed on their date (a semi-bucketed account outside its ranges,
\* a permanently unbucketed account always), dated after cash_flow_start,
\* that are no transfer, have a bucket and a non-zero amount, and that are
\* not a split parent; split children are examined like any other
\* transaction.  Exactly these are listed, each under its account.
C11_CheckBucketedTxns ==
    last.op = "check_for_bucketed_txns_in_unbucketed_accounts" =>
        LET S == {t \in BucketedCandidates : ~HasSplitChildren(t)}
        IN  /\ last.out.ret = -SumAmount(S)
            /\ \A a \in AccountKeys :
                  ListedFor(last.out.offending, a) =
                      {t.key : t \in {s \in S : s.account = a}}

\* A semi-bucketed account with a bucketed transaction outside its range
\* (listed) and one inside it (not listed), the listed one a split child.
C11_Witness ==
    /\ last.op = "check_for_bucketed_txns_in_unbucketed_accounts"
    /\ last.out.ret # 0
    /\ \E c \in BucketedCandidates, t \in TxnValues :
          /\ c.split_parent # None
          /\ c.account \in DOMAIN semi_bucketed_accounts
          /\ c.key \in ListedFor(last.out.offending, c.account)
          /\ t.account = c.account
          /\ t.date > cash_flow_start
          /\ t.bucket # None
          /\ t.account \in BucketedOn(t.date)
          /\ t.key \notin ListedFor(last.out.offending, t.account)

----------------------------------------------------------------------------
(* The split check: a parent of 0.03 or 100.00 in either account with up   *)
(* to MaxTxn children of 0.02 or 60.00 and 0.01 or 39.99, on any dates,    *)
(* and one date range added by cross_setup.                                *)

SplitTxns ==
    UNION {Rows(n + 1, [k \in 1..(n + 1) |->
                IF k = 1
                THEN TxnRows(1, Dates, AccountKeys, {None}, {None}, {None},
                             {30, 100000})
                ELSE TxnRows(k, Dates, {1}, {None}, {None}, {1},
                             IF k = 2 THEN {20, 60000} ELSE {10, 39990})])
           : n \in 1..MaxTxn}

InitSplits ==
    LedgerInit(AccountsSplit, 1..(MaxDate - 1), {<<>>}, SplitTxns, {<<>>})

NextSplits ==
    \/ AddCheckRange
    \/ CheckSplits
    \/ CheckUnbucketedTxns
    \/ CheckBucketedTxns
    \/ CheckBucketedAccountTransfers
    \/ CheckUnbucketedAccountTransfers

SpecSplits == InitSplits /\ [][NextSplits]_vars

\* parent.amount - sum(children amounts) of the split parent p.
Residual(p) ==
    p.amount - SumAmount({c \in TxnValues : c.split_parent = p.key})

SplitParents == {p \in TxnValues : HasSplitChildren(p)}

\* C12: check_splits reports a split parent, with its children, iff the
\* absolute value of its residual is at least 0.01, and returns the sum of
\* the residuals of the reported parents whose account is bucketed on the
\* parent's date and whose date is after cash_flow_start.
C12_CheckSplits ==
    last.op = "check_splits" =>
        LET R == {p \in SplitParents : Abs(Residual(p)) >= SplitTolerance}
            B == {p \in R : /\ p.account \in BucketedOn(p.date)
                            /\ p.date > cash_flow_start}
        IN  /\ DOMAIN last.out.reported = {p.key : p \in R}
            /\ \A p \in R :
                  /\ last.out.reported[p.key].error = Residual(p)
                  /\ {last.out.reported[p.key].children[i] :
                          i \in 1..Len(last.out.reported[p.key].children)} =
                     {c.key : c \in {t \in TxnValues : t.split_parent = p.key}}
            /\ last.out.ret = SumF([k \in {p.key : p \in B} |->
                                       Residual(transactions[k])],
                                   {p.key : p \in B})

\* The parent of 100.00 with children of 60.00 and 39.99 in a bucketed
\* account after the start date: reported, and its residual of 0.01 returned.
C12_Witness ==
    /\ last.op = "check_splits"
    /\ \E p \in SplitParents :
          /\ p.amount = 100000
          /\ Residual(p) = SplitTolerance
          /\ p.key \in DOMAIN last.out.reported
          /\ Len(last.out.reported[p.key].children) = 2
          /\ last.out.ret = SplitTolerance

----------------------------------------------------------------------------
(* The transfer checks.  Every transaction may be a transfer leg whose     *)
(* sibling is another transaction of the ledger or names none, may carry   *)
(* a bucket, and may be a child of an earlier transaction.                 *)

TransferTxns ==
    UNION {Rows(n, [k \in 1..n |->
                       TxnRows(k, Dates, AccountKeys, {None, 1},
                               {None, MissingKey} \cup (1..MaxTxn \ {k}),
                               {None} \cup 1..(k - 1),
                               {AmountByKey(k)})])
           : n \in 0..MaxTxn}

InitTransfers ==
    LedgerInit(AccountsSplit, 1..(MaxDate - 1), {<<>>}, TransferTxns, {<<>>})

GetXferSibling ==
    \E k \in DOMAIN transactions :
        Call([op |-> "get_xfer_sibling", txn |-> k,
              ret |-> get_xfer_sibling(transactions[k])])

NextTransfers ==
    \/ AddCheckRange
    \/ GetXferSibling
    \/ CheckBucketedAccountTransfers
    \/ CheckUnbucketedAccountTransfers

SpecTransfers == InitTransfers /\ [][NextTransfers]_vars

\* The transfer legs dated after the cash flow start date in an account
\* bucketed on the date of the leg.
BucketedLegs ==
    {t \in TxnValues :
        /\ t.transfer_sibling # None
        /\ t.date > cash_flow_start
        /\ t.account \in BucketedOn(t.date)}

SiblingResolves(t) == t.transfer_sibling \in DOMAIN transactions

\* The sibling of leg t is in an account bucketed on the date of t.
SiblingBucketed(t) ==
    /\ SiblingResolves(t)
    /\ transactions[t.transfer_sibling].account \in BucketedOn(t.date)

SiblingUnbucketed(t) ==
    /\ SiblingResolves(t)
    /\ transactions[t.transfer_sibling].account \notin BucketedOn(t.date)

ListedIn(offending) == UNION {ListedFor(offending, a) : a \in AccountKeys}

\* C13 as stated: check_bucketed_account_transfers examines the transfer
\* legs that are not split, dated after the cash flow start date, in an
\* account bucketed on their date; a leg offends iff its sibling is in a
\* bucketed account and the leg has a bucket, or its sibling is in an
\* unbucketed account and the leg has no bucket; the returned value is the
\* sum of the signed amounts of the offending legs.
C13_Original ==
    last.op = "check_bucketed_account_transfers" =>
        LET legs == {t \in BucketedLegs : ~HasSplitChildren(t)}
            to_b == {t \in legs : SiblingBucketed(t) /\ t.bucket # None}
            to_u == {t \in legs : SiblingUnbucketed(t) /\ t.bucket = None}
        IN  /\ last.out.ret = SumAmount(to_b \cup to_u)
            /\ ListedIn(last.out.to_bucketed) = {t.key : t \in to_b}
            /\ ListedIn(last.out.to_unbucketed) = {t.key : t \in to_u}

\* C13 amended: check_bucketed_account_transfers examines every transfer
\* leg, split or not, dated after the cash flow start date, in an account
\* bucketed on its date; a leg offends iff its sibling is a transaction of
\* an account bucketed on the date of the leg and the leg has a bucket, or
\* its sibling is not (it is in an account unbucketed on that date, or it
\* names no transaction) and the leg has no bucket; the returned value is
\* the sum of the signed amounts of the offending legs, each listed under
\* its own account.
C13_CheckBucketedAccountTransfers ==
    last.op = "check_bucketed_account_transfers" =>
        LET to_b == {t \in BucketedLegs : SiblingBucketed(t) /\ t.bucket # None}
            to_u == {t \in BucketedLegs : ~SiblingBucketed(t) /\ t.bucket = None}
        IN  /\ last.out.ret = SumAmount(to_b \cup to_u)
            /\ \A a \in AccountKeys :
                /\ ListedFor(last.out.to_bucketed, a)
                       = {t.key : t \in {x \in to_b : x.account = a}}
                /\ ListedFor(last.out.to_unbucketed, a)
                       = {t.key : t \in {x \in to_u : x.account = a}}

\* A leg with a bucket whose sibling is in an account bucketed by a date
\* range is listed among the transfers to bucketed accounts, a split parent
\* without a bucket whose sibling is in no bucketed account is listed among
\* the transfers to unbucketed accounts, and both amounts are returned.
C13_Witness ==
    /\ last.op = "check_bucketed_account_transfers"
    /\ \E t \in BucketedLegs, u \in BucketedLegs :
        /\ SiblingBucketed(t) /\ t.bucket # None
        /\ transactions[t.transfer_sibling].account = 2
        /\ t.key \in ListedFor(last.out.to_bucketed, t.account)
        /\ ~SiblingBucketed(u) /\ u.bucket = None
        /\ HasSplitChildren(u)
        /\ u.key \in ListedFor(last.out.to_unbucketed, u.account)
        /\ last.out.ret = t.amount + u.amount

\* C14: check_unbucketed_account_transfers returns the negated sum of the
\* amounts of the transfer legs that carry a bucket, are dated after the
\* cash flow start date and are in an account unbucketed on their date, and
\* lists exactly those legs under their accounts; whether the sibling is in
\* a bucketed account, in an unbucketed account or names no transaction
\* plays no part.
C14_CheckUnbucketedAccountTransfers ==
    last.op = "check_unbucketed_account_transfers" =>
        LET S == {t \in TxnValues :
                    /\ t.transfer_sibling # None
                    /\ t.bucket # None
                    /\ t.date > cash_flow_start
                    /\ t.account \notin BucketedOn(t.date)}
        IN  /\ last.out.ret = -SumAmount(S)
            /\ \A a \in AccountKeys :
                ListedFor(last.out.offending, a)
                    = {t.key : t \in {x \in S : x.account = a}}

\* Two legs with a bucket in the account outside its bucketed range, one
\* the sibling of the other and one whose sibling names no transaction, are
\* both listed and their negated amounts returned.
C14_Witness ==
    /\ last.op = "check_unbucketed_account_transfers"
    /\ 2 \in DOMAIN semi_bucketed_accounts
    /\ \E t \in TxnValues, u \in TxnValues :
        /\ t.account = 2 /\ u.account = 2
        /\ t.transfer_sibling = u.key
        /\ ~SiblingResolves(u) /\ u.transfer_sibling # None
        /\ {t.key, u.key} \subseteq ListedFor(last.out.offending, 2)
        /\ last.out.ret = -(t.amount + u.amount)

\* The transfer legs whose sibling names no transaction of the ledger.
UnresolvedLegs ==
    {t \in TxnValues : t.transfer_sibling # None /\ ~SiblingResolves(t)}

CheckOps ==
    {"check_for_unbucketed_txns_in_bucketed_accounts",
     "check_for_bucketed_txns_in_unbucketed_accounts",
     "check_splits",
     "check_bucketed_account_transfers",
     "check_unbucketed_account_transfers"}

\* C15 as stated: for a leg whose transfer_sibling resolves to no
\* transaction, get_xfer_sibling returns the not-found value, every check
\* returns, and check_bucketed_account_transfers puts the leg neither among
\* the transfers to bucketed accounts nor among the transfers to unbucketed
\* accounts.
C15_Original ==
    /\ last.op = "get_xfer_sibling" /\ transactions[last.txn] \in UnresolvedLegs
           => last.ret = None
    /\ last.op \in CheckOps => last.out.ret \in Int
    /\ last.op = "check_bucketed_account_transfers" =>
           \A t \in UnresolvedLegs :
               /\ t.key \notin ListedIn(last.out.to_bucketed)
               /\ t.key \notin ListedIn(last.out.to_unbucketed)

\* C15 amended: for a leg whose transfer_sibling resolves to no
\* transaction, get_xfer_sibling returns the not-found value, every check
\* returns, and check_bucketed_account_transfers treats the leg as a
\* transfer to an unbucketed account: it is never listed among the
\* transfers to bucketed accounts, and it is listed among the transfers to
\* unbucketed accounts exactly when it is examined (dated after the cash
\* flow start date, in an account bucketed on its date) and has no bucket.
C15_UnresolvedSibling ==
    /\ last.op = "get_xfer_sibling" /\ transactions[last.txn] \in UnresolvedLegs
           => last.ret = None
    /\ last.op \in CheckOps => last.out.ret \in Int
    /\ last.op = "check_bucketed_account_transfers" =>
           \A t \in UnresolvedLegs :
               /\ t.key \notin ListedIn(last.out.to_bucketed)
               /\ t.key \in ListedFor(last.out.to_unbucketed, t.account)
                      <=> (t \in BucketedLegs /\ t.bucket = None)

\* A ledger whose only transfer legs have unresolvable siblings, one with
\* and one without a bucket: the check returns the amount of the one
\* without and lists it alone.
C15_Witness ==
    /\ last.op = "check_bucketed_account_transfers"
    /\ \E t \in UnresolvedLegs \cap BucketedLegs, u \in UnresolvedLegs \cap BucketedLegs :
        /\ t.bucket = None /\ u.bucket # None
        /\ ListedIn(last.out.to_unbucketed) = {t.key}
        /\ ListedIn(last.out.to_bucketed) = {}
        /\ last.out.ret = t.amount

----------------------------------------------------------------------------
(* The methods that only read: every balance function and every check,    *)
(* called in any order between the additions of date ranges.              *)

FrameTxns ==
    Rows(MaxTxn, [k \in 1..MaxTxn |->
                     IF k = 1
                     THEN TxnRows(1, {MaxDate - 1}, AccountKeys, {None, 1},
                                  {None, MissingKey}, {None}, {AmountByKey(1)})
                     ELSE TxnRows(k, {MaxDate}, {1}, {1}, {None}, {1},
                                  {AmountByKey(k)})])

FrameFlows ==
    Rows(MaxFlow, [k \in 1..MaxFlow |->
                      [key : {k}, date : {MaxDate}, bucket : {1}, amount : {40}]])

InitFrame ==
    LedgerInit(AccountsSplit, {1}, {[b \in {1} |-> 100]},
               FrameTxns, FrameFlows)

NextFrame ==
    \/ AddCheckRange
    \/ AccountBalance
    \/ BucketBalance
    \/ IsAccountBucketed
    \/ TotalBucketedAccountBalance
    \/ TotalBucketBalance
    \/ CheckCashFlowStart
    \/ CheckBucketBalances
    \/ CheckUnbucketedTxns
    \/ CheckBucketedTxns
    \/ CheckSplits
    \/ CheckBucketedAccountTransfers
    \/ CheckUnbucketedAccountTransfers

SpecFrame == InitFrame /\ [][NextFrame]_vars

BalanceOps ==
    {"account_balance", "bucket_balance", "is_account_bucketed",
     "total_bucketed_account_balance", "total_bucket_balance"}

\* What the call recorded in call returns when it is made again now.
Rerun(call) ==
    CASE call.op = "account_balance" ->
             account_balance(call.account, call.date)
      [] call.op = "bucket_balance" ->
             bucket_balance(call.bucket, call.date)
      [] call.op = "is_account_bucketed" ->
             is_account_bucketed(call.account, call.date)
      [] call.op = "total_bucketed_account_balance" ->
             total_bucketed_account_balance(call.date)
      [] call.op = "total_bucket_balance" ->
             total_bucket_balance(call.date)
      [] call.op = "check_cash_flow_start" ->
             check_cash_flow_start(call.accounts_to_include)
      [] call.op = "check_bucket_balances" ->
             check_bucket_balances(call.date)
      [] call.op = "check_for_unbucketed_txns_in_bucketed_accounts" ->
             check_for_unbucketed_txns_in_bucketed_accounts
      [] call.op = "check_for_bucketed_txns_in_unbucketed_accounts" ->
             check_for_bucketed_txns_in_unbucketed_accounts
      [] call.op = "check_splits" -> check_splits
      [] call.op = "check_bucketed_account_transfers" ->
             check_bucketed_account_transfers
      [] call.op = "check_unbucketed_account_transfers" ->
             check_unbucketed_account_transfers

Returned(call) == IF call.op \in BalanceOps THEN call.ret ELSE call.out

IsRead == last.op \in BalanceOps \cup CheckOps
                       \cup {"check_cash_flow_start", "check_bucket_balances"}

----------------------------------------------------------------------------
(* The cash flow start date as the lower end of every computation: the     *)
(* first transaction is of any kind and date, the second is a proper       *)
(* transaction or a child of the first, of any date.                       *)

WindowTxns ==
    UNION {Rows(n, [k \in 1..n |->
                       IF k = 1
                       THEN TxnRows(1, Dates, AccountKeys, {None, 1},
                                    {None, MissingKey}, {None}, {AmountByKey(1)})
                       ELSE TxnRows(k, Dates, {1}, {1}, {None},
                                    {None, 1}, {AmountByKey(k)})])
           : n \in 0..MaxTxn}

WindowFlows ==
    UNION {Rows(n, [k \in 1..n |->
                       [key : {k}, date : Dates, bucket : {1}, amount : {40}]])
           : n \in 0..MaxFlow}

InitWindow ==
    LedgerInit(AccountsSplit, 1..(MaxDate - 1), {<<>>}, WindowTxns, WindowFlows)

NextWindow ==
    \/ AddCheckRange
    \/ BucketBalance
    \/ CheckUnbucketedTxns
    \/ CheckBucketedTxns
    \/ CheckSplits
    \/ CheckBucketedAccountTransfers
    \/ CheckUnbucketedAccountTransfers

SpecWindow == InitWindow /\ [][NextWindow]_vars

AfterStart(S) == {x \in S : x.date > cash_flow_start}

\* The transactions of the keys listed, all dated after the cash flow start
\* date, make up the returned value, and the transactions of Q dated on the
\* day after the cash flow start date are among them.
StartExcluded(Q, listed, returned, sign) ==
    /\ \A k \in listed : transactions[k].date > cash_flow_start
    /\ returned = sign * SumAmount({transactions[k] : k \in listed})
    /\ \A t \in Q : t.date = cash_flow_start + 1 => t.key \in listed

\* The rule of the start date for bucket_balance and the four checks of
\* transactions and transfers.
StartRule ==
    /\ last.op = "bucket_balance" =>
           last.ret = StartingBalanceOf(last.bucket)
                      + SumAmount({x \in AfterStart(TxnValues) :
                                      x.bucket = last.bucket /\ x.date <= last.date})
                      + SumAmount({x \in AfterStart(FlowValues) :
                                      x.bucket = last.bucket /\ x.date <= last.date})
    /\ last.op = "check_for_unbucketed_txns_in_bucketed_accounts" =>
           StartExcluded({t \in UnbucketedCandidates : ~HasSplitChildren(t)},
                         ListedIn(last.out.offending), last.out.ret, 1)
    /\ last.op = "check_for_bucketed_txns_in_unbucketed_accounts" =>
           StartExcluded({t \in BucketedCandidates : ~HasSplitChildren(t)},
                         ListedIn(last.out.offending), last.out.ret, -1)
    /\ last.op = "check_bucketed_account_transfers" =>
           StartExcluded({t \in BucketedLegs : SiblingBucketed(t) <=> t.bucket # None},
                         ListedIn(last.out.to_bucketed)
                             \cup ListedIn(last.out.to_unbucketed),
                         last.out.ret, 1)
    /\ last.op = "check_unbucketed_account_transfers" =>
           StartExcluded({t \in TxnValues :
                             /\ t.transfer_sibling # None /\ t.bucket # None
                             /\ t.account \notin BucketedOn(t.date)},
                         ListedIn(last.out.offending), last.out.ret, -1)

\* The split parents reported by the last check_splits that count towards
\* its returned value.
CountedParents ==
    {p \in AfterStart(TxnValues) :
        /\ p.key \in DOMAIN last.out.reported
        /\ p.account \in BucketedOn(p.date)}

ResidualAfterStart(p) ==
    p.amount - SumAmount({c \in AfterStart(TxnValues) : c.split_parent = p.key})

\* C17 as stated: no record dated on or before the cash flow start date
\* contributes to bucket_balance or to the value returned by the
\* unbucketed-transactions check, the bucketed-transactions check,
\* check_splits or the two transfer checks, and a qualifying record dated
\* on the following day does; for check_splits, neither a parent nor a
\* child dated on or before the start date enters the returned residuals.
C17_Original ==
    /\ StartRule
    /\ last.op = "check_splits" =>
           last.out.ret = SumF([k \in {p.key : p \in CountedParents} |->
                                   ResidualAfterStart(transactions[k])],
                               {p.key : p \in CountedParents})

\* The rule as check_splits applies it, to the date of the split parent
\* only: a parent dated on or before the start date adds nothing to the
\* returned value, a reported parent dated after it (in a bucketed account)
\* adds its residual against all its children, whatever their dates.
StartRuleOfParents ==
    /\ StartRule
    /\ last.op = "check_splits" =>
           last.out.ret = SumF([k \in {p.key : p \in CountedParents} |->
                                   Residual(transactions[k])],
                               {p.key : p \in CountedParents})

\* check_splits has returned the residual of a parent dated on the day after
\* the cash flow start date whose child is dated on the start date.
C17_Witness ==
    /\ last.op = "check_splits"
    /\ \E p \in TxnValues, c \in TxnValues :
        /\ c.split_parent = p.key
        /\ p.date = cash_flow_start + 1
        /\ c.date = cash_flow_start
        /\ last.out.ret = p.amount - c.amount
        /\ last.out.ret # 0

----------------------------------------------------------------------------
(* The order of the lists the checks report. *)

\* The transactions of the keys in seq are in non-decreasing date order.
InDateOrder(seq) ==
    \A i \in 1..(Len(seq) - 1) :
        transactions[seq[i]].date <= transactions[seq[i + 1]].date

AllInDateOrder(offending) ==
    \A a \in DOMAIN offending : InDateOrder(offending[a])

\* The per-account lists of the two checks of transactions and of the two
\* checks of transfers are in non-decreasing date order.
ListsSorted ==
    /\ last.op \in {"check_for_unbucketed_txns_in_bucketed_accounts",
                    "check_for_bucketed_txns_in_unbucketed_accounts",
                    "check_unbucketed_account_transfers"}
           => AllInDateOrder(last.out.offending)
    /\ last.op = "check_bucketed_account_transfers"
           => /\ AllInDateOrder(last.out.to_bucketed)
              /\ AllInDateOrder(last.out.to_unbucketed)

\* C18: every list of transactions a check reports is in non-decreasing
\* date order: the per-account lists of the two checks of transactions and
\* of the two checks of transfers, and the children check_splits lists
\* under a reported parent.
C18_ListsInDateOrder ==
    /\ ListsSorted
    /\ last.op = "check_splits"
           => \A k \in DOMAIN last.out.reported :
                  InDateOrder(last.out.reported[k].children)

\* check_splits has listed two children of a parent, the later one first.
C18_Witness ==
    /\ last.op = "check_splits"
    /\ \E k \in DOMAIN last.out.reported :
        LET children == last.out.reported[k].children
        IN  /\ Len(children) = 2
            /\ transactions[children[1]].date > transactions[children[2]].date

----------------------------------------------------------------------------
(* __main__ step by step: cross_setup adds its date ranges, then the       *)
(* bucket vs. account check and the six checks run one after the other;    *)
(* pc names the check that runs next, last records the checks run so far,  *)
(* what each returned and the transactions each listed.                    *)

Order ==
    <<"check_bucket_balances",
      "check_cash_flow_start",
      "check_for_bucketed_txns_in_unbucketed_accounts",
      "check_for_unbucketed_txns_in_bucketed_accounts",
      "check_splits",
      "check_bucketed_account_transfers",
      "check_unbucketed_account_transfers">>

Ran == IF last.op = "__main__" THEN last.ran ELSE <<>>

ReturnedSoFar == IF last.op = "__main__" THEN last.returned ELSE <<>>

ListedSoFar == IF last.op = "__main__" THEN last.listed ELSE <<>>

\* The keys in the per-account lists of a check, one list after the other.
RECURSIVE Printed(_)
Printed(offending) ==
    IF DOMAIN offending = {} THEN <<>>
    ELSE LET a == CHOOSE x \in DOMAIN offending :
                      \A y \in DOMAIN offending : x <= y
         IN  offending[a] \o Printed([b \in DOMAIN offending \ {a} |-> offending[b]])

\* Faulty variant: a run that goes on only while no error has been found.
RunCheck_while_clean(at, next, name, returned, listed, counted) ==
    /\ pc = at
    /\ error_sum = 0
    /\ pc' = next
    /\ error_sum' = IF counted THEN error_sum + returned ELSE error_sum
    /\ last' = [op |-> "__main__", ran |-> Append(Ran, name),
                returned |-> Append(ReturnedSoFar, returned),
                listed |-> Append(ListedSoFar, listed)]
    /\ UNCHANGED <<ledger, semi_bucketed_accounts, added>>

\* One statement of __main__: the check name runs, its returned value is
\* added to error_sum if it is one of the six, and control moves on.
RunCheck(at, next, name, returned, listed, counted) ==
    /\ pc = at
    /\ pc' = next
    /\ error_sum' = IF counted THEN error_sum + returned ELSE error_sum
    /\ last' = [op |-> "__main__", ran |-> Append(Ran, name),
                returned |-> Append(ReturnedSoFar, returned),
                listed |-> Append(ListedSoFar, listed)]
    /\ UNCHANGED <<ledger, semi_bucketed_accounts, added>>

MainCheckBucketBalances ==
    RunCheck("setup", Order[2], Order[1],
             check_bucket_balances(DateMax).ret,
             <<>>, FALSE)

MainCheckCashFlowStart ==
    RunCheck(Order[2], Order[3], Order[2], check_cash_flow_start(<<>>).ret,
             <<>>, TRUE)

MainCheckBucketedTxns ==
    RunCheck(Order[3], Order[4], Order[3],
             check_for_bucketed_txns_in_unbucketed_accounts.ret,
             Printed(check_for_bucketed_txns_in_unbucketed_accounts.offending),
             TRUE)

MainCheckUnbucketedTxns ==
    RunCheck(Order[4], Order[5], Order[4],
             check_for_unbucketed_txns_in_bucketed_accounts.ret,
             Printed(check_for_unbucketed_txns_in_bucketed_accounts.offending),
             TRUE)

MainCheckSplits ==
    RunCheck(Order[5], Order[6], Order[5], check_splits.ret, <<>>, TRUE)

MainCheckBucketedAccountTransfers ==
    RunCheck(Order[6], Order[7], Order[6],
             check_bucketed_account_transfers.ret,
             Printed(check_bucketed_account_transfers.to_bucketed)
                 \o Printed(check_bucketed_account_transfers.to_unbucketed),
             TRUE)

MainCheckUnbucketedAccountTransfers ==
    RunCheck(Order[7], "done", Order[7],
             check_unbucketed_account_transfers.ret,
             Printed(check_unbucketed_account_transfers.offending),
             TRUE)

MainChecks ==
    \/ MainCheckBucketBalances
    \/ MainCheckCashFlowStart
    \/ MainCheckBucketedTxns
    \/ MainCheckUnbucketedTxns
    \/ MainCheckSplits
    \/ MainCheckBucketedAccountTransfers
    \/ MainCheckUnbucketedAccountTransfers

InitRun ==
    LedgerInit(AccountsSplit, 1..(MaxDate - 1), StartingBalances({1}, {10}),
               WindowTxns, {<<>>})

NextRun == AddCheckRange \/ MainChecks

SpecRun == InitRun /\ [][NextRun]_vars

\* __main__ is straight-line code and every check returns: once cross_setup
\* is over, the next check runs.
SpecRunFair == SpecRun /\ WF_vars(MainChecks)

\* What the checks of Order return on the ledger and ranges as they are.
ResultNow(i) ==
    CASE i = 1 -> check_bucket_balances(DateMax).ret
      [] i = 2 -> check_cash_flow_start(<<>>).ret
      [] i = 3 -> check_for_bucketed_txns_in_unbucketed_accounts.ret
      [] i = 4 -> check_for_unbucketed_txns_in_bucketed_accounts.ret
      [] i = 5 -> check_splits.ret
      [] i = 6 -> check_bucketed_account_transfers.ret
      [] i = 7 -> check_unbucketed_account_transfers.ret

\* The checks run so far are the first ones of Order, each once, pc names
\* the one that follows, each returned what it returns on the ledger with
\* the ranges of cross_setup, and error_sum is the sum of what the six
\* checks among them returned.
RunInOrder ==
    LET n == Len(Ran)
    IN  /\ n <= Len(Order)
        /\ Ran = SubSeq(Order, 1, n)
        /\ pc = (IF n = 0 THEN "setup"
                 ELSE IF n = Len(Order) THEN "done" ELSE Order[n + 1])
        /\ Len(ReturnedSoFar) = n
        /\ \A i \in 1..n : ReturnedSoFar[i] = ResultNow(i)
        /\ error_sum = SumF([i \in 2..n |-> ReturnedSoFar[i]], 2..n)

\* C19: in a run of __main__ a date range is appended only before the first
\* check has started; the bucket vs. account check and the six checks then
\* run once each in the order of Order, whatever the checks before them
\* returned, every run reaches the end, and the error sum reported there is
\* the sum of the values the six checks returned.
C19_Driver ==
    /\ [][semi_bucketed_accounts' # semi_bucketed_accounts
             => pc = "setup" /\ Ran = <<>> /\ pc' = "setup"]_vars
    /\ []RunInOrder
    /\ <>(pc = "done" /\ Ran = Order)

\* A run has ended after a date range was added, the bucket vs. account
\* check did not pass, and both an early and a late check returned an error.
C19_Witness ==
    /\ pc = "done"
    /\ semi_bucketed_accounts # <<>>
    /\ last.returned[1] = FALSE
    /\ last.returned[3] # 0
    /\ last.returned[6] # 0
    /\ error_sum = last.returned[2] + last.returned[3] + last.returned[4]
                   + last.returned[5] + last.returned[6] + last.returned[7]

----------------------------------------------------------------------------
(* The lists of one run, on the ledgers of the transfer checks: transfer   *)
(* legs and other transactions, with and without a bucket, in both         *)
(* accounts, on either side of a date range.                               *)

SpecLists == InitTransfers /\ [][NextRun]_vars

\* The positions in Order of the two checks of transactions and the two
\* checks of transfers that have run.
ListingChecks == {3, 4, 6, 7} \cap 1..Len(Ran)

\* How often the run has listed transaction k in the lists of those checks.
TimesListed(k) ==
    SumF([i \in ListingChecks |->
             Cardinality({j \in 1..Len(ListedSoFar[i]) : ListedSoFar[i][j] = k})],
         ListingChecks)

KeysListed(i) == {ListedSoFar[i][j] : j \in 1..Len(ListedSoFar[i])}

\* The amount of transaction k as the check at position i of Order adds it.
SignedAmount(i, k) ==
    IF i \in {3, 7} THEN -transactions[k].amount ELSE transactions[k].amount

\* C20: in a run, no transaction is listed by more than one of
\* check_for_unbucketed_txns_in_bucketed_accounts,
\* check_for_bucketed_txns_in_unbucketed_accounts,
\* check_bucketed_account_transfers and check_unbucketed_account_transfers,
\* nor twice by one of them, and what the four have returned is the sum over
\* the listed transactions of their amounts, each taken once.
C20_ListedOnce ==
    /\ \A k \in DOMAIN transactions : TimesListed(k) <= 1
    /\ SumF([i \in ListingChecks |-> ReturnedSoFar[i]], ListingChecks)
           = SumF([i \in ListingChecks |->
                      SumF([k \in KeysListed(i) |-> SignedAmount(i, k)],
                           KeysListed(i))],
                  ListingChecks)

\* A run has ended in which a check of transactions and a check of
\* transfers have each listed a transaction of the same account, one on a
\* date inside and one on a date outside the range added for the account.
C20_Witness ==
    /\ pc = "done"
    /\ \E k \in DOMAIN transactions, l \in DOMAIN transactions :
        /\ k # l
        /\ transactions[k].account = transactions[l].account
        /\ k \in KeysListed(3) \cup KeysListed(4)
        /\ l \in KeysListed(6) \cup KeysListed(7)
        /\ (k \in KeysListed(3)) # (l \in KeysListed(7))
        /\ TimesListed(k) = 1
        /\ TimesListed(l) = 1

----------------------------------------------------------------------------
(* The cash flow start check against the bucket vs. account check on the   *)
(* cash flow start date: ledgers with starting balances for a bucket, for  *)
(* the hidden bucket and for a key that is no bucket, transactions with    *)
(* and without a bucket on either side of the start date, and a money flow *)
(* on the first date.                                                      *)

EquivTxns ==
    UNION {Rows(n, [k \in 1..n |->
                       TxnRows(k, Dates, AccountKeys, {None, 1},
                               {None}, {None}, {100})])
           : n \in 0..MaxTxn}

EquivFlows ==
    UNION {Rows(n, [k \in 1..n |->
                       [key : {k}, date : {1}, bucket : {1}, amount : {40}]])
           : n \in 0..MaxFlow}

InitEquiv ==
    LedgerInit(AccountsSplit, 1..(MaxDate - 1),
               StartingBalances({1, NBucket, NBucket + 1}, {100}),
               EquivTxns, EquivFlows)

NextEquiv == AddCheckRange \/ CheckCashFlowStart \/ CheckBucketBalances

SpecEquiv == InitEquiv /\ [][NextEquiv]_vars

\* Every key of starting_bucket_balances is a bucket of the ledger.
StartingKeysAreBuckets == DOMAIN starting_bucket_balances \subseteq DOMAIN buckets

\* C21: when every key of starting_bucket_balances is a bucket of the
\* ledger, check_cash_flow_start without an account set returns
\* total_bucketed_account_balance(cash_flow_start)
\* - total_bucket_balance(cash_flow_start), and it reports good exactly when
\* check_bucket_balances(cash_flow_start) does.
C21_StartAgreesWithBalances ==
    StartingKeysAreBuckets =>
        /\ last.op = "check_cash_flow_start" /\ last.accounts_to_include = <<>>
               => /\ last.out.ret
                         = total_bucketed_account_balance(cash_flow_start)
                           - total_bucket_balance(cash_flow_start)
                  /\ (last.out.report = "good")
                         <=> check_bucket_balances(cash_flow_start).ret
        /\ last.op = "check_bucket_balances" /\ last.date = cash_flow_start
               => (last.out.ret
                       <=> check_cash_flow_start(<<>>).report = "good")

\* check_cash_flow_start has reported good on a ledger with a starting
\* balance for the hidden bucket, matched by a transaction on the cash flow
\* start date in the account a date range makes bucketed on that date, and
\* with a bucketed transaction after the start date.
C21_Witness ==
    /\ last.op = "check_cash_flow_start"
    /\ last.accounts_to_include = <<>>
    /\ StartingKeysAreBuckets
    /\ DOMAIN starting_bucket_balances = {NBucket}
    /\ last.out.report = "good"
    /\ last.out.account_balance_total = 100
    /\ 2 \in bucketed_accounts(cash_flow_start)
    /\ \E t \in TxnValues : t.account = 2 /\ t.date = cash_flow_start
    /\ \E t \in TxnValues : t.bucket = 1 /\ t.date > cash_flow_start

====
